---- MODULE Spec2Model ----
(***************************************************************************)
(* Model of the showcase-agent browser client: the App authentication      *)
(* switch, the PasswordGate, the chat session hook (useChat), the          *)
(* ChatInterface callbacks and the FileUpload widget, together with the    *)
(* HTTP requests they leave in flight and the two browser storage keys.    *)
(*                                                                         *)
(* Text is a sequence of atoms (TLA+ strings).  An atom stands for one     *)
(* character or for a run of characters none of which is a space, a        *)
(* double quote, a backslash or a dot, so that trim, JSON escaping and     *)
(* the file-extension split act on atoms as they act on characters.        *)
(* Presentation-only state (isDragging, scroll position) is not modelled.  *)
(***************************************************************************)
EXTENDS Integers, Sequences, FiniteSets, Bags, TLC

(***************************************************************************)
(* Bounds of the model.                                                    *)
(***************************************************************************)
MaxMsgs == 4
MaxQueries == 2
MaxUploads == 2
MaxPairLen == 9
MaxLogins == 1

(***************************************************************************)
(* Values: null / string, as JavaScript has them.                          *)
(***************************************************************************)
Null == [t |-> "null"]
Str(s) == [t |-> "str", s |-> s]

SP == " "
QUOTE == "\""
BSLASH == "\\"

\* src/frontend/src/constants/chat.ts
WELCOME_TEXT == <<"Upload", SP, "documents", SP, "to", SP, "get", SP, "started">>
UPLOAD_SUCCESS_TEXT == <<"File", SP, "upload", SP, "successful", ".", SP, "Start", SP, "asking", SP, "questions!">>
TOP_K == 5

WelcomeMessage == [role |-> "assistant", content |-> WELCOME_TEXT]
UploadSuccessMessage == [role |-> "assistant", content |-> UPLOAD_SUCCESS_TEXT]

(***************************************************************************)
(* String.prototype.trim, Array.prototype.join                             *)
(***************************************************************************)
RECURSIVE TrimStart(_)
TrimStart(s) ==
  IF s # <<>> /\ Head(s) = SP THEN TrimStart(Tail(s)) ELSE s

RECURSIVE TrimEnd(_)
TrimEnd(s) ==
  IF s # <<>> /\ s[Len(s)] = SP THEN TrimEnd(SubSeq(s, 1, Len(s) - 1)) ELSE s

Trim(s) == TrimEnd(TrimStart(s))

RECURSIVE Join(_, _)
Join(parts, sep) ==
  IF parts = <<>> THEN <<>>
  ELSE IF Len(parts) = 1 THEN parts[1]
  ELSE parts[1] \o sep \o Join(Tail(parts), sep)

(***************************************************************************)
(* JSON.stringify of a Message[] (useChat.ts line 42).                     *)
(***************************************************************************)
\* a serializer that escapes nothing
JsonEscapeNothing(s) == s

RECURSIVE JsonEscape(_)
JsonEscape(s) ==
  IF s = <<>> THEN <<>>
  ELSE IF Head(s) = QUOTE \/ Head(s) = BSLASH
       THEN <<BSLASH, Head(s)>> \o JsonEscape(Tail(s))
       ELSE <<Head(s)>> \o JsonEscape(Tail(s))

JsonString(s) == <<QUOTE>> \o JsonEscape(s) \o <<QUOTE>>

JsonStringArray(ss) ==
  <<"[">> \o Join([i \in 1..Len(ss) |-> JsonString(ss[i])], <<",">>) \o <<"]">>

\* a key whose value is undefined is left out
JsonMessage(m) ==
  <<"{">> \o JsonString(<<"role">>) \o <<":">> \o JsonString(<<m.role>>)
  \o <<",">> \o JsonString(<<"content">>) \o <<":">> \o JsonString(m.content)
  \o (IF "sources" \in DOMAIN m
      THEN <<",">> \o JsonString(<<"sources">>) \o <<":">> \o JsonStringArray(m.sources)
      ELSE <<>>)
  \o <<"}">>

JSONStringify(msgs) ==
  <<"[">> \o Join([i \in 1..Len(msgs) |-> JsonMessage(msgs[i])], <<",">>) \o <<"]">>

(***************************************************************************)
(* JSON.parse: recursive descent over the atoms.  A result is              *)
(* [ok, val, next]; ok = FALSE is the SyntaxError.  Parsed values are      *)
(* tagged: str, num, null, arr (a) and obj (keys, vals).                   *)
(***************************************************************************)
ParseFail == [ok |-> FALSE, val |-> Null, next |-> 0]

RECURSIVE ParseStringBody(_, _, _)
ParseStringBody(s, i, acc) ==
  IF i > Len(s) THEN ParseFail
  ELSE IF s[i] = QUOTE THEN [ok |-> TRUE, val |-> Str(acc), next |-> i + 1]
  ELSE IF s[i] = BSLASH
       THEN IF i + 1 <= Len(s) /\ (s[i + 1] = QUOTE \/ s[i + 1] = BSLASH)
            THEN ParseStringBody(s, i + 2, Append(acc, s[i + 1]))
            ELSE ParseFail
  ELSE ParseStringBody(s, i + 1, Append(acc, s[i]))

Digits == {"0", "1", "2", "3", "4", "5", "6", "7", "8", "9"}

RECURSIVE ParseValue(_, _)
RECURSIVE ParseElements(_, _, _)
RECURSIVE ParseMembers(_, _, _, _)

ParseValue(s, i) ==
  IF i > Len(s) THEN ParseFail
  ELSE IF s[i] = QUOTE THEN ParseStringBody(s, i + 1, <<>>)
  ELSE IF s[i] = "null" THEN [ok |-> TRUE, val |-> Null, next |-> i + 1]
  ELSE IF s[i] \in Digits
       THEN [ok |-> TRUE, val |-> [t |-> "num", n |-> s[i]], next |-> i + 1]
  ELSE IF s[i] = "["
       THEN IF i + 1 <= Len(s) /\ s[i + 1] = "]"
            THEN [ok |-> TRUE, val |-> [t |-> "arr", a |-> <<>>], next |-> i + 2]
            ELSE ParseElements(s, i + 1, <<>>)
  ELSE IF s[i] = "{"
       THEN IF i + 1 <= Len(s) /\ s[i + 1] = "}"
            THEN [ok |-> TRUE,
                  val |-> [t |-> "obj", keys |-> <<>>, vals |-> <<>>],
                  next |-> i + 2]
            ELSE ParseMembers(s, i + 1, <<>>, <<>>)
  ELSE ParseFail

ParseElements(s, i, acc) ==
  LET v == ParseValue(s, i) IN
  IF ~v.ok THEN ParseFail
  ELSE IF v.next > Len(s) THEN ParseFail
  ELSE IF s[v.next] = ","
       THEN ParseElements(s, v.next + 1, Append(acc, v.val))
  ELSE IF s[v.next] = "]"
       THEN [ok |-> TRUE, val |-> [t |-> "arr", a |-> Append(acc, v.val)],
             next |-> v.next + 1]
  ELSE ParseFail

ParseMembers(s, i, keys, vals) ==
  IF i > Len(s) \/ s[i] # QUOTE THEN ParseFail
  ELSE
    LET k == ParseStringBody(s, i + 1, <<>>) IN
    IF ~k.ok \/ k.next > Len(s) \/ s[k.next] # ":" THEN ParseFail
    ELSE
      LET v == ParseValue(s, k.next + 1) IN
      IF ~v.ok \/ v.next > Len(s) THEN ParseFail
      ELSE IF s[v.next] = ","
           THEN ParseMembers(s, v.next + 1, Append(keys, k.val.s), Append(vals, v.val))
      ELSE IF s[v.next] = "}"
           THEN [ok |-> TRUE,
                 val |-> [t |-> "obj", keys |-> Append(keys, k.val.s),
                          vals |-> Append(vals, v.val)],
                 next |-> v.next + 1]
      ELSE ParseFail

JSONParse(s) ==
  LET v == ParseValue(s, 1) IN
  IF v.ok /\ v.next = Len(s) + 1 THEN v ELSE ParseFail

(***************************************************************************)
(* The cast "as Message[]" (useChat.ts line 22): the parsed array read as  *)
(* messages.  A property the element does not have reads as undefined.     *)
(***************************************************************************)
HasKey(o, k) == o.t = "obj" /\ \E j \in 1..Len(o.keys) : o.keys[j] = k

\* a repeated key keeps its last value
Prop(o, k) ==
  LET j == CHOOSE n \in 1..Len(o.keys) :
             o.keys[n] = k /\ \A m \in (n + 1)..Len(o.keys) : o.keys[m] # k
  IN o.vals[j]

TextOf(v) == IF v.t = "str" THEN v.s ELSE IF v.t = "num" THEN <<v.n>> ELSE <<v.t>>

AsMessage(o) ==
  LET role == IF HasKey(o, <<"role">>) /\ Prop(o, <<"role">>).t = "str"
                 /\ Len(Prop(o, <<"role">>).s) = 1
              THEN Prop(o, <<"role">>).s[1] ELSE "undefined"
      content == IF HasKey(o, <<"content">>) THEN TextOf(Prop(o, <<"content">>))
                 ELSE <<"undefined">>
      base == [role |-> role, content |-> content]
  IN IF HasKey(o, <<"sources">>) /\ Prop(o, <<"sources">>).t = "arr"
     THEN LET a == Prop(o, <<"sources">>).a
          IN [role |-> role, content |-> content,
              sources |-> [j \in 1..Len(a) |-> TextOf(a[j])]]
     ELSE base

AsMessages(v) == [j \in 1..Len(v.a) |-> AsMessage(v.a[j])]

(***************************************************************************)
(* loadMessagesFromStorage.  stored is the value under the session key     *)
(* (Null when absent); readOk = FALSE is sessionStorage.getItem throwing.  *)
(***************************************************************************)
\* a loader without the length test of line 23
loadMessagesAnyArray(stored, readOk) ==
  IF ~readOk THEN <<WelcomeMessage>>
  ELSE IF stored = Null \/ stored.s = <<>> THEN <<WelcomeMessage>>
  ELSE LET parsed == JSONParse(stored.s) IN
       IF parsed.ok /\ parsed.val.t = "arr"
       THEN AsMessages(parsed.val) ELSE <<WelcomeMessage>>

loadMessagesFromStorage(stored, readOk) ==
  IF ~readOk THEN <<WelcomeMessage>>
  ELSE IF stored = Null \/ stored.s = <<>> THEN <<WelcomeMessage>>
  ELSE LET parsed == JSONParse(stored.s) IN
       IF parsed.ok /\ parsed.val.t = "arr" /\ Len(parsed.val.a) > 0
       THEN AsMessages(parsed.val)
       ELSE <<WelcomeMessage>>

(***************************************************************************)
(* getLast3Pairs (utils/chat.ts): the loop over i, then slice(-3).         *)
(***************************************************************************)
RECURSIVE PairsLoop(_, _, _)
PairsLoop(msgs, i, pairs) ==
  IF i >= Len(msgs) THEN pairs
  ELSE IF msgs[i].role = "user" /\ msgs[i + 1].role = "assistant"
       THEN PairsLoop(msgs, i + 1,
                      Append(pairs, [query |-> msgs[i].content,
                                     answer |-> msgs[i + 1].content]))
       ELSE PairsLoop(msgs, i + 1, pairs)

\* Array.prototype.slice(-n)
\* slice(0, 3): the first three instead of the last three
SliceFirst(a, n) ==
  IF Len(a) <= n THEN a ELSE SubSeq(a, 1, n)

SliceLast(a, n) ==
  IF Len(a) <= n THEN a ELSE SubSeq(a, Len(a) - n + 1, Len(a))

getLast3Pairs(msgs) == SliceLast(PairsLoop(msgs, 1, <<>>), 3)

(***************************************************************************)
(* parseError (useChat.ts).  An error is [status, detail, message]:        *)
(* status 0 when there is no response, detail Null, a string or            *)
(* [t |-> "list", a |-> elements], an element a string or                  *)
(* [t |-> "obj", msg |-> Null or string].                                  *)
(***************************************************************************)
GENERIC_ERROR == <<"An", SP, "error", SP, "occurred">>
OBJECT_STRING == <<"[object", SP, "Object]">>

DetailElementText(e) ==
  IF e.t = "str" THEN e.s
  ELSE IF e.msg.t = "str" /\ e.msg.s # <<>> THEN e.msg.s
  ELSE OBJECT_STRING

\* an extraction that never reads error.message
parseErrorDetailOnly(err) ==
  IF err.detail.t = "list"
  THEN Join([i \in 1..Len(err.detail.a) |-> DetailElementText(err.detail.a[i])], <<SP>>)
  ELSE IF err.detail.t = "str" THEN err.detail.s
  ELSE GENERIC_ERROR

parseError(err) ==
  LET raw == IF err.detail.t # "null" THEN err.detail
             ELSE IF err.message.t # "null" THEN err.message
             ELSE Str(GENERIC_ERROR)
  IN IF raw.t = "list"
     THEN Join([i \in 1..Len(raw.a) |-> DetailElementText(raw.a[i])], <<SP>>)
     ELSE raw.s

(***************************************************************************)
(* The file filter of handleUpload (FileUpload.tsx lines 32-50).           *)
(***************************************************************************)
supportedTypes ==
  {"application/pdf",
   "application/vnd.openxmlformats-officedocument.wordprocessingml.document",
   "application/msword"}

\* name.split(".").pop(): what follows the last dot, the whole name without one
RECURSIVE LastSegment(_)
LastSegment(name) ==
  IF \E i \in 1..Len(name) : name[i] = "."
  THEN LastSegment(Tail(name))
  ELSE name

LowerAtom(a) ==
  CASE a = "PDF" -> "pdf"
    [] a = "Pdf" -> "pdf"
    [] a = "DOCX" -> "docx"
    [] a = "DOC" -> "doc"
    [] a = "TXT" -> "txt"
    [] OTHER -> a

\* a comparison of the extension as spelled
toLowerCaseVerbatim(s) == s

toLowerCase(s) == [i \in 1..Len(s) |-> LowerAtom(s[i])]

FileIsValid(file) ==
  LET ext == toLowerCase(LastSegment(file.name)) IN
  \/ file.type \in supportedTypes
  \/ ext = <<"pdf">>
  \/ ext = <<"docx">>
  \/ ext = <<"doc">>

RECURSIVE ValidFiles(_)
ValidFiles(files) ==
  IF files = <<>> THEN <<>>
  ELSE IF FileIsValid(Head(files))
       THEN <<Head(files)>> \o ValidFiles(Tail(files))
       ELSE ValidFiles(Tail(files))

UPLOAD_TYPE_ERROR ==
  <<"Please", SP, "upload", SP, "PDF", SP, "or", SP, "Word", SP, "documents",
    SP, "(", ".", "pdf", ",", SP, ".", "docx", ",", SP, ".", "doc", ")">>

UploadingStatus(n) == <<"Uploading", SP, ToString(n), SP, "file(s)", ".", ".", ".">>

SuccessStatus(result) ==
  <<"Successfully", SP, "processed", SP, ToString(result.files_processed), SP,
    "file(s)", SP, "with", SP, ToString(result.chunks_processed), SP, "chunks">>

\* PasswordGate.tsx line 28
INVALID_PASSWORD == <<"Invalid", SP, "password">>
GATE_RETRY == <<"Something", SP, "went", SP, "wrong", ".", SP, "Try", SP, "again", ".">>

(***************************************************************************)
(* State.                                                                  *)
(*   App:            isAuthenticated                                       *)
(*   localStorage:   localToken                                            *)
(*   sessionStorage: sessionStore, and storageMode: "ok", "full" (setItem  *)
(*                   throws) or "blocked" (getItem and setItem throw)      *)
(*   PasswordGate:   password, gateError, gateLoading                      *)
(*   useChat:        messages, input, loading, error                       *)
(*   ChatInterface:  documentsLoaded, isUploading                          *)
(*   FileUpload:     fuIsUploading, uploadStatus                           *)
(*   net:            the bag of requests in flight                         *)
(*   logins:         how many times /auth has succeeded                    *)
(*   lastOp:         history: the handler that ran last and what it saw    *)
(* A component that is not mounted has no state: its variables hold their  *)
(* initial values (messages = <<>> for the chat).                          *)
(***************************************************************************)
VARIABLES isAuthenticated, localToken, sessionStore, storageMode,
          password, gateError, gateLoading,
          messages, input, loading, error,
          documentsLoaded, isUploading,
          fuIsUploading, uploadStatus,
          net, logins, lastOp

appVars == <<isAuthenticated, localToken, logins>>
gateVars == <<password, gateError, gateLoading>>
chatVars == <<messages, input, loading, error>>
ifaceVars == <<documentsLoaded, isUploading>>
fuVars == <<fuIsUploading, uploadStatus>>
vars == <<isAuthenticated, localToken, sessionStore, storageMode, password,
          gateError, gateLoading, messages, input, loading, error,
          documentsLoaded, isUploading, fuIsUploading, uploadStatus, net,
          logins, lastOp>>

(***************************************************************************)
(* Inputs of the environment.                                              *)
(***************************************************************************)
TOKEN == <<"tok">>

Passwords == {<<>>, <<SP>>, <<SP, "pw">>}

Inputs == {<<>>, <<SP, SP>>, <<SP, "hi", QUOTE, BSLASH, SP>>}

AuthResponses ==
  {[ok |-> TRUE, status |-> 200, token |-> TOKEN],
   [ok |-> FALSE, status |-> 401, token |-> <<>>],
   [ok |-> FALSE, status |-> 500, token |-> <<>>],
   [ok |-> FALSE, status |-> 0, token |-> <<>>]}

AXIOS_401 == <<"Request", SP, "failed", SP, "with", SP, "status", SP, "code", SP, "401">>
AXIOS_500 == <<"Request", SP, "failed", SP, "with", SP, "status", SP, "code", SP, "500">>
\* a response of /query, or the error axios rejects with: status 0 when
\* there is no response
QueryResponses ==
  {[ok |-> TRUE, status |-> 200, answer |-> Str(<<"42", QUOTE>>),
    sources |-> [t |-> "arr", a |-> <<<<"a", ".", "pdf">>>>]],
   [ok |-> TRUE, status |-> 200, answer |-> Null, sources |-> Null],
   [ok |-> FALSE, status |-> 401, detail |-> Str(<<"Unauthorized">>),
    message |-> Str(AXIOS_401)],
   [ok |-> FALSE, status |-> 400, detail |-> Str(<<"No", SP, "documents">>),
    message |-> Str(<<"Request", SP, "failed">>)],
   [ok |-> FALSE, status |-> 422,
    detail |-> [t |-> "list",
                a |-> <<[t |-> "obj", msg |-> Str(<<"field", SP, "required">>)],
                        [t |-> "obj", msg |-> Str(<<"bad", SP, "value">>)]>>],
    message |-> Str(<<"Request", SP, "failed">>)],
   [ok |-> FALSE, status |-> 500, detail |-> Null, message |-> Str(AXIOS_500)],
   [ok |-> FALSE, status |-> 0, detail |-> Null, message |-> Null]}

PDF_MIME == "application/pdf"

F_report == [name |-> <<"report", ".", "PDF">>, type |-> ""]
F_notes == [name |-> <<"notes", ".", "txt">>, type |-> "text/plain"]
F_scan == [name |-> <<"scan", ".", "bin">>, type |-> PDF_MIME]
F_bare == [name |-> <<"doc">>, type |-> ""]

\* a FileList, or Null for e.target.files = null
FileLists ==
  {Null,
   [t |-> "files", a |-> <<>>],
   [t |-> "files", a |-> <<F_notes>>],
   [t |-> "files", a |-> <<F_notes, F_scan, F_report, F_bare>>]}

\* a response of /upload; with status 0 the fetch itself rejected and
\* statusText holds the message of its error
UploadResponses ==
  {[ok |-> TRUE, status |-> 200, detail |-> Null, statusText |-> <<"OK">>,
    chunks |-> 7],
   [ok |-> FALSE, status |-> 401, detail |-> Str(<<"Invalid", SP, "token">>),
    statusText |-> <<"Unauthorized">>, chunks |-> 0],
   [ok |-> FALSE, status |-> 500, detail |-> Null,
    statusText |-> <<"Internal", SP, "Server", SP, "Error">>, chunks |-> 0],
   [ok |-> FALSE, status |-> 0, detail |-> Null,
    statusText |-> <<"Failed", SP, "to", SP, "fetch">>, chunks |-> 0]}

StoredList ==
  <<WelcomeMessage,
    [role |-> "user", content |-> <<"hi", QUOTE, BSLASH>>],
    [role |-> "assistant", content |-> <<"42", QUOTE>>,
     sources |-> <<<<"a", ".", "pdf">>>>]>>

StorageModes == {"ok", "full", "blocked"}

\* what the session key may hold when the page loads
InitialStores ==
  {Null, Str(JSONStringify(StoredList))}

(***************************************************************************)
(* Derived views (ChatInterface.tsx lines 31-34, 69; ChatInput isDisabled).*)
(***************************************************************************)
\* a test of the first message alone, whatever follows it
isWelcomeFirst(msgs) ==
  /\ Len(msgs) >= 1
  /\ msgs[1].role = "assistant"
  /\ msgs[1].content = WELCOME_TEXT

isWelcomeOnly(msgs) ==
  /\ Len(msgs) = 1
  /\ msgs[1].role = "assistant"
  /\ msgs[1].content = WELCOME_TEXT

ShowWelcome(msgs, docs) == isWelcomeOnly(msgs) /\ ~docs

ChatMounted == isAuthenticated
GateMounted == ~isAuthenticated
FileUploadMounted == isAuthenticated /\ ShowWelcome(messages, documentsLoaded)
ChatInputDisabled == loading \/ isUploading

Send(reqs, req) == reqs (+) SetToBag({req})
Settle(reqs, req) == reqs (-) SetToBag({req})
InFlight(kind) == {r \in BagToSet(net) : r.kind = kind}
KindOf(r) == r.kind
NumInFlight(kind) == CopiesIn(kind, BagOfAll(KindOf, net))

\* the continuations of an unmounted component update nothing
OrphanChatRequest(r) == [r EXCEPT !.chatAlive = FALSE, !.fuAlive = FALSE]
OrphanUploadRequest(r) == [r EXCEPT !.fuAlive = FALSE]
OrphanChat(reqs) == BagOfAll(OrphanChatRequest, reqs)
OrphanUpload(reqs) == BagOfAll(OrphanUploadRequest, reqs)

(***************************************************************************)
(* The persistence effect (useChat.ts lines 40-44): writeOk = FALSE is     *)
(* sessionStorage.setItem throwing, which the catch swallows.              *)
(***************************************************************************)
ReadOk(mode) == mode # "blocked"
WriteOk(mode) == mode = "ok"

\* an effect that writes only while the key is absent
PersistFirstOnly(msgs, stored, writeOk) ==
  IF writeOk /\ stored = Null THEN Str(JSONStringify(msgs)) ELSE stored

PersistMessages(msgs, stored, writeOk) ==
  IF writeOk THEN Str(JSONStringify(msgs)) ELSE stored

WriteResult == IF WriteOk(storageMode) THEN "ok" ELSE "failed"

\* the effect as part of a step that has set messages'
Persist ==
  sessionStore' = PersistMessages(messages', sessionStore, WriteOk(storageMode))

\* the chat components as constructed: useState initialisers and first effects
MountChat ==
  /\ messages' = loadMessagesFromStorage(sessionStore, ReadOk(storageMode))
  /\ Persist
  /\ input' = <<>>
  /\ loading' = FALSE
  /\ error' = Null
  /\ documentsLoaded' = FALSE
  /\ isUploading' = FALSE
  /\ fuIsUploading' = FALSE
  /\ uploadStatus' = Null

UnmountChat ==
  /\ messages' = <<>>
  /\ input' = <<>>
  /\ loading' = FALSE
  /\ error' = Null
  /\ documentsLoaded' = FALSE
  /\ isUploading' = FALSE
  /\ fuIsUploading' = FALSE
  /\ uploadStatus' = Null

FreshGate ==
  /\ password' = <<>>
  /\ gateError' = Null
  /\ gateLoading' = FALSE

\* FileUpload lives inside WelcomeView: unmounted when the transcript shows
RenderFileUpload(nextUploading, nextStatus, nextNet) ==
  IF ShowWelcome(messages', documentsLoaded')
  THEN /\ fuIsUploading' = nextUploading
       /\ uploadStatus' = nextStatus
       /\ net' = nextNet
  ELSE /\ fuIsUploading' = FALSE
       /\ uploadStatus' = Null
       /\ net' = OrphanUpload(nextNet)

(***************************************************************************)
(* App.handleUnauthorized (also onLogout), part_003 lines 11-14.           *)
(***************************************************************************)
\* a handler that switches the view and leaves the token where it is
handleUnauthorizedKeepsToken(nextNet) ==
  /\ isAuthenticated' = FALSE
  /\ UNCHANGED <<localToken, sessionStore, storageMode, logins>>
  /\ IF isAuthenticated
     THEN /\ UnmountChat
          /\ FreshGate
          /\ net' = OrphanChat(nextNet)
     ELSE /\ UNCHANGED <<gateVars, chatVars, ifaceVars, fuVars>>
          /\ net' = nextNet

handleUnauthorized(nextNet) ==
  /\ localToken' = Null
  /\ isAuthenticated' = FALSE
  /\ UNCHANGED <<sessionStore, storageMode, logins>>
  /\ IF isAuthenticated
     THEN /\ UnmountChat
          /\ FreshGate
          /\ net' = OrphanChat(nextNet)
     ELSE /\ UNCHANGED <<gateVars, chatVars, ifaceVars, fuVars>>
          /\ net' = nextNet

(***************************************************************************)
(* Init: App is constructed; with a token in localStorage the chat mounts. *)
(***************************************************************************)
InitApp(tokens, stores) ==
  /\ localToken \in tokens
  /\ isAuthenticated = (localToken # Null /\ localToken.s # <<>>)
  /\ storageMode \in StorageModes
  /\ password = <<>>
  /\ gateError = Null
  /\ gateLoading = FALSE
  /\ input = <<>>
  /\ loading = FALSE
  /\ error = Null
  /\ documentsLoaded = FALSE
  /\ isUploading = FALSE
  /\ fuIsUploading = FALSE
  /\ uploadStatus = Null
  /\ net = EmptyBag
  /\ logins = 0
  /\ \E stored \in stores :
       IF isAuthenticated
       THEN /\ messages = loadMessagesFromStorage(stored, ReadOk(storageMode))
            /\ sessionStore = PersistMessages(messages, stored, WriteOk(storageMode))
            /\ lastOp = [op |-> "load", stored |-> stored, write |-> WriteResult]
       ELSE /\ messages = <<>>
            /\ sessionStore = stored
            /\ lastOp = [op |-> "init"]

Init == InitApp({Null, Str(TOKEN)}, InitialStores)

(***************************************************************************)
(* PasswordGate                                                            *)
(***************************************************************************)
SetPassword(p) ==
  /\ GateMounted
  /\ p # password
  /\ password' = p
  /\ lastOp' = [op |-> "setPassword"]
  /\ UNCHANGED <<appVars, sessionStore, storageMode, gateError, gateLoading,
                 chatVars, ifaceVars, fuVars, net>>

GateGuard(pw, isLoading) == Trim(pw) = <<>> \/ isLoading

\* PasswordGate.handleSubmit up to the await
GateSubmit ==
  /\ GateMounted
  /\ IF GateGuard(password, gateLoading)
     THEN /\ lastOp' = [op |-> "gateSubmit", accepted |-> FALSE]
          /\ UNCHANGED <<gateError, gateLoading, net>>
     ELSE /\ gateError' = Null
          /\ gateLoading' = TRUE
          /\ net' = Send(net, [kind |-> "auth",
                               body |-> [password |-> Trim(password)],
                               auth |-> Null,
                               chatAlive |-> FALSE, fuAlive |-> FALSE])
          /\ lastOp' = [op |-> "gateSubmit", accepted |-> TRUE]
  /\ UNCHANGED <<appVars, sessionStore, storageMode, password, chatVars,
                 ifaceVars, fuVars>>

\* a gate that shows the retry text for every failure
GateErrorTextAlwaysRetry(resp) == GATE_RETRY

GateErrorText(resp) ==
  IF resp.status = 401 THEN INVALID_PASSWORD ELSE GATE_RETRY

\* PasswordGate.handleSubmit after the await, and on success the render of
\* App that mounts ChatInterface
AuthResponse(req, resp) ==
  /\ req \in InFlight("auth")
  /\ UNCHANGED storageMode
  /\ IF resp.ok
     THEN /\ logins < MaxLogins
          /\ logins' = logins + 1
          /\ localToken' = Str(resp.token)
          /\ isAuthenticated' = TRUE
          /\ MountChat
          /\ FreshGate
          /\ net' = Settle(net, req)
          /\ lastOp' = [op |-> "authResp", resp |-> resp,
                        stored |-> sessionStore, write |-> WriteResult]
     ELSE /\ gateError' = Str(GateErrorText(resp))
          /\ gateLoading' = FALSE
          /\ net' = Settle(net, req)
          /\ lastOp' = [op |-> "authResp", resp |-> resp,
                        stored |-> Null, write |-> "none"]
          /\ UNCHANGED <<appVars, sessionStore, password, chatVars, ifaceVars,
                         fuVars>>

(***************************************************************************)
(* useChat                                                                 *)
(***************************************************************************)
SetInput(v) ==
  /\ ChatMounted
  /\ v # input
  /\ input' = v
  /\ lastOp' = [op |-> "setInput"]
  /\ UNCHANGED <<appVars, sessionStore, storageMode, gateVars, messages,
                 loading, error, ifaceVars, fuVars, net>>

\* the headers of the /query request (useChat.ts line 67)
QueryAuthHeader(token) ==
  IF token # Null /\ token.s # <<>> THEN Str(<<"Bearer", SP>> \o token.s) ELSE Null

\* a guard on the raw input, without trim()
SubmitGuardUntrimmed(text, isLoading) == text = <<>> \/ isLoading

SubmitGuard(text, isLoading) == Trim(text) = <<>> \/ isLoading

QueryRequest(msgs, userMessage, token) ==
  [kind |-> "query",
   body |-> [query |-> userMessage, top_k |-> TOP_K,
             previous_messages |-> getLast3Pairs(msgs)],
   auth |-> QueryAuthHeader(token),
   chatAlive |-> TRUE, fuAlive |-> FALSE]

\* handleSubmit up to the await (useChat.ts lines 46-69); cap bounds the
\* length of the list
Submit(cap) ==
  /\ ChatMounted
  /\ IF SubmitGuard(input, loading)
     THEN /\ lastOp' = [op |-> "submit", accepted |-> FALSE, write |-> "none"]
          /\ UNCHANGED <<sessionStore, chatVars, ifaceVars, fuVars, net>>
     ELSE /\ Len(messages) + 2 <= cap
          /\ NumInFlight("query") < MaxQueries
          /\ input' = <<>>
          /\ error' = Null
          /\ messages' = Append(messages, [role |-> "user", content |-> Trim(input)])
          /\ loading' = TRUE
          /\ Persist
          /\ UNCHANGED ifaceVars
          /\ RenderFileUpload(fuIsUploading, uploadStatus,
               Send(net, QueryRequest(messages, Trim(input), localToken)))
          /\ lastOp' = [op |-> "submit", accepted |-> TRUE, write |-> WriteResult]
  /\ UNCHANGED <<appVars, storageMode, gateVars>>

handleSubmit == Submit(MaxMsgs)

AnswerMessage(data) ==
  [role |-> "assistant",
   content |-> IF data.answer = Null THEN <<>> ELSE data.answer.s,
   sources |-> IF data.sources.t = "arr" THEN data.sources.a ELSE <<>>]

ErrorMessage(msg) == [role |-> "assistant", content |-> <<"Error", ":", SP>> \o msg]

\* what the history keeps of a response nobody reads any more
Seen(resp, alive) ==
  IF alive THEN resp ELSE [ok |-> resp.ok, status |-> resp.status]

\* a handler whose finally clause is missing
setLoadingSkipped == UNCHANGED loading

\* the finally clause of handleSubmit (useChat.ts lines 90-92)
setLoadingFalse == loading' = FALSE

\* handleSubmit after the await (useChat.ts lines 70-92)
QueryResponse(req, resp) ==
  /\ req \in InFlight("query")
  /\ UNCHANGED storageMode
  /\ LET rest == Settle(net, req)
     IN IF ~resp.ok /\ resp.status = 401
        THEN /\ handleUnauthorized(rest)
             /\ lastOp' = [op |-> "queryResp", resp |-> resp,
                           query |-> req.body.query,
                           alive |-> req.chatAlive, write |-> "none"]
        ELSE IF ~req.chatAlive
        THEN /\ net' = rest
             /\ lastOp' = [op |-> "queryResp", resp |-> Seen(resp, FALSE),
                           query |-> req.body.query,
                           alive |-> FALSE, write |-> "none"]
             /\ UNCHANGED <<appVars, sessionStore, gateVars, chatVars,
                            ifaceVars, fuVars>>
        ELSE /\ IF resp.ok
                THEN /\ messages' = Append(messages, AnswerMessage(resp))
                     /\ UNCHANGED error
                ELSE /\ error' = Str(parseError(resp))
                     /\ messages' = Append(messages, ErrorMessage(parseError(resp)))
             /\ setLoadingFalse
             /\ Persist
             /\ RenderFileUpload(fuIsUploading, uploadStatus, rest)
             /\ lastOp' = [op |-> "queryResp", resp |-> resp,
                           query |-> req.body.query,
                           alive |-> TRUE, write |-> WriteResult]
             /\ UNCHANGED <<appVars, gateVars, input, ifaceVars>>

(***************************************************************************)
(* ChatInterface                                                           *)
(***************************************************************************)
handleResetDocs ==
  /\ ChatMounted
  /\ documentsLoaded' = FALSE
  /\ messages' = <<WelcomeMessage>>
  /\ error' = Null
  /\ Persist
  /\ RenderFileUpload(fuIsUploading, uploadStatus, net)
  /\ lastOp' = [op |-> "resetDocs", write |-> WriteResult]
  /\ UNCHANGED <<appVars, storageMode, gateVars, input, loading, isUploading>>

Logout ==
  /\ ChatMounted
  /\ handleUnauthorized(net)
  /\ lastOp' = [op |-> "logout"]

(***************************************************************************)
(* FileUpload                                                              *)
(***************************************************************************)
\* the Authorization header of the /upload request (FileUpload.tsx line 71)
UploadAuthHeader(token) ==
  Str(<<"Bearer", SP>> \o (IF token = Null THEN <<"null">> ELSE token.s))

UploadGuard(files, uploading) == files = Null \/ files.a = <<>>

UploadRequest(validFiles, token) ==
  [kind |-> "upload",
   body |-> [files |-> validFiles],
   auth |-> UploadAuthHeader(token),
   chatAlive |-> TRUE, fuAlive |-> TRUE]

\* handleUpload up to the await (FileUpload.tsx lines 28-74) with
\* ChatInterface.handleUploadError and setIsUploading
handleUpload(files, via) ==
  /\ FileUploadMounted
  /\ IF UploadGuard(files, fuIsUploading)
     THEN /\ lastOp' = [op |-> via, files |-> files, outcome |-> "ignored"]
          /\ UNCHANGED <<error, isUploading, fuVars, net>>
     ELSE IF ValidFiles(files.a) = <<>>
     THEN /\ error' = Str(UPLOAD_TYPE_ERROR)
          /\ lastOp' = [op |-> via, files |-> files, outcome |-> "rejected"]
          /\ UNCHANGED <<isUploading, fuVars, net>>
     ELSE /\ NumInFlight("upload") < MaxUploads
          /\ fuIsUploading' = TRUE
          /\ isUploading' = TRUE
          /\ uploadStatus' = Str(UploadingStatus(Len(ValidFiles(files.a))))
          /\ net' = Send(net, UploadRequest(ValidFiles(files.a), localToken))
          /\ lastOp' = [op |-> via, files |-> files, outcome |-> "sent"]
          /\ UNCHANGED error
  /\ UNCHANGED <<appVars, sessionStore, storageMode, gateVars, messages, input,
                 loading, documentsLoaded>>

handleDrop(files) == handleUpload(files, "drop")

\* the picker opens from the dropzone's onClick, which is undefined while
\* isUploading (FileUpload.tsx lines 117-125, 136)
handleFileChange(files) ==
  /\ ~fuIsUploading
  /\ handleUpload(files, "pick")

\* the message of the Error thrown or caught (FileUpload.tsx lines 76-79, 87)
UploadErrorMessage(resp) ==
  IF resp.status = 0 THEN resp.statusText
  ELSE IF resp.detail # Null /\ resp.detail.s # <<>> THEN resp.detail.s
  ELSE <<"Upload", SP, "failed", ":", SP>> \o resp.statusText

UploadResult(req, resp) ==
  [files_processed |-> Len(req.body.files), chunks_processed |-> resp.chunks]

\* handleUpload after the await (FileUpload.tsx lines 76-93) with the
\* ChatInterface callbacks it invokes (ChatInterface.tsx lines 36-44)
UploadResponse(req, resp) ==
  /\ req \in InFlight("upload")
  /\ LET rest == Settle(net, req)
     IN /\ lastOp' = [op |-> "uploadResp", resp |-> Seen(resp, req.chatAlive),
                      chatAlive |-> req.chatAlive, fuAlive |-> req.fuAlive,
                      write |-> IF resp.ok /\ req.chatAlive
                                THEN WriteResult ELSE "none"]
        /\ IF ~req.chatAlive
           THEN /\ net' = rest
                /\ UNCHANGED <<sessionStore, chatVars, ifaceVars, fuVars>>
           ELSE IF resp.ok
           THEN /\ documentsLoaded' = TRUE
                /\ messages' = <<UploadSuccessMessage>>
                /\ Persist
                /\ isUploading' = FALSE
                /\ RenderFileUpload(FALSE,
                                    IF req.fuAlive
                                    THEN Str(SuccessStatus(UploadResult(req, resp)))
                                    ELSE uploadStatus,
                                    rest)
                /\ UNCHANGED <<input, loading, error>>
           ELSE /\ error' = Str(UploadErrorMessage(resp))
                /\ isUploading' = FALSE
                /\ fuIsUploading' = IF req.fuAlive THEN FALSE ELSE fuIsUploading
                /\ uploadStatus' = IF req.fuAlive THEN Null ELSE uploadStatus
                /\ net' = rest
                /\ UNCHANGED <<sessionStore, messages, input, loading,
                               documentsLoaded>>
  /\ UNCHANGED <<appVars, storageMode, gateVars>>

(***************************************************************************)
(* The program: every handler, on any input, in any order.                 *)
(***************************************************************************)
Next ==
  \/ \E p \in Passwords : SetPassword(p)
  \/ GateSubmit
  \/ \E req \in BagToSet(net), resp \in AuthResponses : AuthResponse(req, resp)
  \/ \E v \in Inputs : SetInput(v)
  \/ handleSubmit
  \/ \E req \in BagToSet(net), resp \in QueryResponses : QueryResponse(req, resp)
  \/ handleResetDocs
  \/ Logout
  \/ \E files \in FileLists \ {Null} : handleDrop(files)
  \/ \E files \in FileLists : handleFileChange(files)
  \/ \E req \in BagToSet(net), resp \in UploadResponses : UploadResponse(req, resp)

Spec == Init /\ [][Next]_vars

(***************************************************************************)
(* SpecPairs: the session starts from any stored list of up to MaxPairLen  *)
(* messages, and the user types and submits (getLast3Pairs on any list).   *)
(***************************************************************************)
Roles == {"user", "assistant"}

MessagesOfRoles(roles) ==
  [i \in 1..Len(roles) |-> [role |-> roles[i], content |-> <<"m", ToString(i)>>]]

PairStores ==
  {Str(JSONStringify(MessagesOfRoles(roles))) :
     roles \in UNION {[1..n -> Roles] : n \in 1..MaxPairLen}}

InitPairs == InitApp({Str(TOKEN)}, PairStores)

NextPairs ==
  \/ \E v \in Inputs : SetInput(v)
  \/ Submit(MaxPairLen + 2)

SpecPairs == InitPairs /\ [][NextPairs]_vars

(***************************************************************************)
(* SpecLoad: the page loads with anything under the session key, intact,   *)
(* cut short or foreign, and the user signs in (loadMessagesFromStorage on *)
(* any stored value).                                                      *)
(***************************************************************************)
StoredText == JSONStringify(StoredList)

LoadStores ==
  {Null, Str(<<"{", "}">>), Str(<<QUOTE, "x", QUOTE>>), Str(<<"null">>),
   Str(<<"5">>), Str(<<"[", "]">>), Str(<<"[", "]", "]">>),
   Str(<<"{", QUOTE, "role", QUOTE, ":", QUOTE, "user", QUOTE, "}">>),
   Str(JSONStringify(<<WelcomeMessage>>)),
   Str(JSONStringify(<<UploadSuccessMessage>>))}
  \cup {Str(SubSeq(StoredText, 1, n)) : n \in 0..Len(StoredText)}

InitLoad == InitApp({Null, Str(TOKEN)}, LoadStores)

NextLoad ==
  \/ \E p \in Passwords : SetPassword(p)
  \/ GateSubmit
  \/ \E req \in BagToSet(net), resp \in AuthResponses : AuthResponse(req, resp)

SpecLoad == InitLoad /\ [][NextLoad]_vars

(***************************************************************************)
(* Properties.                                                             *)
(***************************************************************************)
Is401(resp) == ~resp.ok /\ resp.status = 401
IsBlank(text) == \A i \in 1..Len(text) : text[i] = SP
LastOf(s) == s[Len(s)]
Front(s) == SubSeq(s, 1, Len(s) - 1)
KindAlive(r) == <<r.kind, r.chatAlive>>
NumLive(kind) == CopiesIn(<<kind, TRUE>>, BagOfAll(KindAlive, net))

\* C1: a 401 from /query or from /upload removes the stored token and shows
\* the password gate; for /query the list the session is left with ends in
\* the optimistic user message and nothing is appended or persisted.
C1_Step ==
  /\ (lastOp'.op = "uploadResp" /\ lastOp'.chatAlive /\ Is401(lastOp'.resp))
       => (localToken' = Null /\ ~isAuthenticated')
  /\ (lastOp'.op = "queryResp" /\ lastOp'.alive /\ Is401(lastOp'.resp))
       => /\ localToken' = Null
          /\ ~isAuthenticated'
          /\ LastOf(messages) = [role |-> "user", content |-> lastOp'.query]
          /\ sessionStore' = sessionStore

C1_Unauthorized401 == [][C1_Step]_vars

\* C2: the mounted session never has more than one /query request and never
\* more than one /upload request in flight.
C2_AtMostOneInFlight == NumLive("query") <= 1 /\ NumLive("upload") <= 1

\* C3: a submit with blank input, or while a query is pending, changes
\* neither the messages, the input, the loading flag, the error banner nor
\* either storage, and sends nothing.
C3_Step ==
  (lastOp'.op = "submit" /\ (IsBlank(input) \/ loading))
    => UNCHANGED <<messages, input, loading, error, sessionStore, localToken, net>>

C3_BlankOrPendingSubmitIsNoOp == [][C3_Step]_vars

C3_Witness ==
  /\ lastOp.op = "submit"
  /\ ~lastOp.accepted
  /\ loading
  /\ ~IsBlank(input)
  /\ NumLive("query") = 1

\* C4: the previous_messages of a query are the adjacent (user, assistant)
\* pairs of the list as it was at the submit, oldest first, all of them when
\* there are at most 3 and else the 3 most recent.
PairStarts(msgs) ==
  {i \in 1..(Len(msgs) - 1) :
     msgs[i].role = "user" /\ msgs[i + 1].role = "assistant"}

KeptStarts(msgs) ==
  {i \in PairStarts(msgs) : Cardinality({j \in PairStarts(msgs) : j > i}) < 3}

IsLast3Pairs(msgs, pairs) ==
  /\ Len(pairs) = Cardinality(KeptStarts(msgs))
  /\ Len(pairs) <= 3
  /\ \A i \in KeptStarts(msgs) :
       pairs[Cardinality({j \in KeptStarts(msgs) : j <= i})]
         = [query |-> msgs[i].content, answer |-> msgs[i + 1].content]

C4_Last3Pairs ==
  (lastOp.op = "submit" /\ lastOp.accepted)
    => \A r \in InFlight("query") :
         r.chatAlive => IsLast3Pairs(Front(messages), r.body.previous_messages)

C4_Witness ==
  /\ lastOp.op = "submit"
  /\ lastOp.accepted
  /\ Cardinality(PairStarts(Front(messages))) >= 4
  /\ \E r \in InFlight("query") : Len(r.body.previous_messages) = 3

\* C5: when the session key is absent, empty, unparsable, not an array or an
\* empty array, or reading it throws, the session starts with exactly the
\* welcome message.
IsFallbackStore(stored, mode) ==
  \/ mode = "blocked"
  \/ stored = Null
  \/ stored.s = <<>>
  \/ ~JSONParse(stored.s).ok
  \/ JSONParse(stored.s).val.t # "arr"
  \/ JSONParse(stored.s).val.a = <<>>

JustMounted ==
  isAuthenticated /\ (lastOp.op = "load" \/ (lastOp.op = "authResp" /\ lastOp.resp.ok))

C5_FallbackToWelcome ==
  (JustMounted /\ IsFallbackStore(lastOp.stored, storageMode))
    => messages = <<[role |-> "assistant", content |-> WELCOME_TEXT]>>

C5_Witness ==
  /\ JustMounted
  /\ lastOp.op = "authResp"
  /\ storageMode = "ok"
  /\ lastOp.stored = Str(<<"[", "]">>)
  /\ messages = <<WelcomeMessage>>

\* C6 (as stated): an upload request is issued only if at least one of the
\* files has a supported MIME type or a .pdf/.docx/.doc extension in any
\* letter case, and it carries exactly those files in their order; if none
\* has, the validation error is reported, nothing is sent and the uploading
\* flags stay as they were.
ExtensionSpellings ==
  {<<"pdf">>, <<"PDF">>, <<"Pdf">>, <<"docx">>, <<"DOCX">>, <<"doc">>, <<"DOC">>}

DotsOf(name) == {k \in 1..Len(name) : name[k] = "."}

HasListedExtension(file) ==
  \E k \in DotsOf(file.name) :
    SubSeq(file.name, k + 1, Len(file.name)) \in ExtensionSpellings

PassesAsClaimed(file) == file.type \in supportedTypes \/ HasListedExtension(file)

FilesOf(files) == IF files = Null THEN <<>> ELSE files.a

IsUploadStep == lastOp'.op \in {"drop", "pick"}

SendsExactly(passing) ==
  \E r \in BagToSet(net') :
    /\ r.kind = "upload"
    /\ r.body.files = passing
    /\ net' = net (+) SetToBag({r})

ReportsTypeError ==
  /\ error' = Str(UPLOAD_TYPE_ERROR)
  /\ net' = net
  /\ isUploading' = isUploading
  /\ fuIsUploading' = fuIsUploading

C6_Step ==
  IsUploadStep =>
    LET passing == SelectSeq(FilesOf(lastOp'.files), PassesAsClaimed)
    IN /\ (net' # net) => (passing # <<>> /\ SendsExactly(passing))
       /\ (passing = <<>>) => ReportsTypeError

C6_UploadFilter == [][C6_Step]_vars

\* C6 (amended): the same for any non-empty list of files, where a file
\* without a dot in its name has its whole name compared with pdf/docx/doc;
\* an absent or empty list changes nothing at all and reports nothing.
MaxOf(S) == CHOOSE k \in S : \A j \in S : j <= k

LastDotPart(name) ==
  IF DotsOf(name) = {} THEN name
  ELSE SubSeq(name, MaxOf(DotsOf(name)) + 1, Len(name))

PassesFilter(file) ==
  file.type \in supportedTypes \/ LastDotPart(file.name) \in ExtensionSpellings

C6_AmendedStep ==
  IsUploadStep =>
    LET passing == SelectSeq(FilesOf(lastOp'.files), PassesFilter)
    IN IF FilesOf(lastOp'.files) = <<>>
       THEN UNCHANGED <<error, net, isUploading, fuIsUploading, uploadStatus>>
       ELSE /\ (net' # net) => (passing # <<>> /\ SendsExactly(passing))
            /\ (passing = <<>>) => ReportsTypeError

C6_UploadFilterNonEmpty == [][C6_AmendedStep]_vars

C6_Witness ==
  /\ lastOp.op = "drop"
  /\ lastOp.outcome = "sent"
  /\ \E f \in {lastOp.files.a[i] : i \in 1..Len(lastOp.files.a)} : ~PassesFilter(f)
  /\ \E r \in InFlight("upload") :
       r.body.files = SelectSeq(lastOp.files.a, PassesFilter)

\* C7 (as stated): a failed query that is not a 401 appends one assistant
\* message "Error: " + msg directly after the optimistic user message and
\* sets the banner to msg, where msg is the detail string, or the msg fields
\* of a detail list joined by spaces, or the generic text without a detail.
RECURSIVE SpaceJoined(_)
SpaceJoined(parts) ==
  IF parts = <<>> THEN <<>>
  ELSE IF Len(parts) = 1 THEN parts[1]
  ELSE SpaceJoined(Front(parts)) \o <<SP>> \o LastOf(parts)

MsgFields(detail) == [i \in 1..Len(detail.a) |-> detail.a[i].msg.s]

DetailText(resp, otherwise) ==
  IF resp.detail.t = "str" THEN resp.detail.s
  ELSE IF resp.detail.t = "list" THEN SpaceJoined(MsgFields(resp.detail))
  ELSE otherwise

IsFailedQueryStep ==
  /\ lastOp'.op = "queryResp"
  /\ lastOp'.alive
  /\ ~lastOp'.resp.ok
  /\ lastOp'.resp.status # 401

AppendsError(msg) ==
  /\ messages' = Append(messages, [role |-> "assistant",
                                   content |-> <<"Error", ":", SP>> \o msg])
  /\ error' = Str(msg)

C7_Step ==
  IsFailedQueryStep =>
    /\ LastOf(messages) = [role |-> "user", content |-> lastOp'.query]
    /\ AppendsError(DetailText(lastOp'.resp, GENERIC_ERROR))

OwnMessage(resp) ==
  IF resp.message.t = "str" THEN resp.message.s ELSE GENERIC_ERROR

C7_AmendedStep ==
  IsFailedQueryStep => AppendsError(DetailText(lastOp'.resp, OwnMessage(lastOp'.resp)))

C8_RoundTrip ==
  ChatMounted =>
    loadMessagesFromStorage(PersistMessages(messages, Null, TRUE), TRUE) = messages

C8_Witness ==
  /\ isAuthenticated
  /\ lastOp.op = "authResp"
  /\ storageMode = "ok"
  /\ messages = loadMessagesFromStorage(lastOp.stored, TRUE)
  /\ messages[1] = UploadSuccessMessage
  /\ \E i \in 1..Len(messages) :
       \E j \in 1..Len(messages[i].content) : messages[i].content[j] = QUOTE
  /\ \E i \in 1..Len(messages) :
       "sources" \in DOMAIN messages[i] /\ messages[i].sources # <<>>

\* C9: the token is written, and the gate gives way to the chat, only on a
\* successful authentication response; a 401 shows "Invalid password", any
\* other failure the retry text, and a failure leaves the token as it was
\* and the gate ready for another attempt.
C9_Step ==
  /\ (localToken' # localToken /\ localToken' # Null)
       => (lastOp'.op = "authResp" /\ lastOp'.resp.ok)
  /\ (isAuthenticated' /\ ~isAuthenticated)
       => /\ lastOp'.op = "authResp"
          /\ lastOp'.resp.ok
          /\ localToken' = Str(lastOp'.resp.token)
  /\ (lastOp'.op = "authResp" /\ ~lastOp'.resp.ok)
       => /\ gateError' = Str(IF lastOp'.resp.status = 401
                              THEN INVALID_PASSWORD ELSE GATE_RETRY)
          /\ localToken' = localToken
          /\ ~isAuthenticated'
          /\ ~gateLoading'
          /\ password' = password

C9_GateOutcomes == [][C9_Step]_vars

C9_Witness ==
  /\ lastOp.op = "authResp"
  /\ lastOp.resp.status = 401
  /\ gateError = Str(INVALID_PASSWORD)
  /\ ~gateLoading
  /\ ~IsBlank(password)
  /\ localToken = Null

\* C10: whenever the message list changes and the storage write succeeds,
\* the session entry is the serialization of the list; when the write fails
\* the entry stays as it was and the step has the effect on the session's
\* state that it has when the write succeeds.
ChangesMessages == ChatMounted' /\ (~ChatMounted \/ messages' # messages)

IsAppendOf(after, before) ==
  Len(after) = Len(before) + 1 /\ SubSeq(after, 1, Len(before)) = before

EffectInMemory ==
  CASE lastOp'.op = "submit" ->
         IsAppendOf(messages', messages) /\ loading' /\ input' = <<>>
    [] lastOp'.op = "queryResp" -> IsAppendOf(messages', messages) /\ ~loading'
    [] lastOp'.op = "resetDocs" ->
         messages' = <<WelcomeMessage>> /\ ~documentsLoaded'
    [] lastOp'.op = "uploadResp" ->
         messages' = <<UploadSuccessMessage>> /\ documentsLoaded'
    [] lastOp'.op = "authResp" -> Len(messages') >= 1
    [] OTHER -> FALSE

C10_Step ==
  ChangesMessages =>
    IF storageMode = "ok"
    THEN sessionStore' = Str(JSONStringify(messages')) /\ lastOp'.write = "ok"
    ELSE sessionStore' = sessionStore /\ lastOp'.write = "failed" /\ EffectInMemory

C10_PersistOnChange == [][C10_Step]_vars

C10_Witness ==
  /\ lastOp.op = "queryResp"
  /\ lastOp.alive
  /\ lastOp.write = "ok"
  /\ Len(messages) >= 3
  /\ sessionStore = Str(JSONStringify(messages))

\* C11: while an upload of the mounted session is in flight the chat input
\* is disabled, so no submit made through the enabled input sends a /query
\* between the start of an upload and its completion; and after every
\* upload outcome the uploading flag of ChatInterface is false.
IsAcceptedSubmitStep == lastOp'.op = "submit" /\ lastOp'.accepted

C11_Step ==
  /\ (NumLive("upload") > 0) => ChatInputDisabled
  /\ (IsAcceptedSubmitStep /\ ~ChatInputDisabled) => NumLive("upload") = 0
  /\ (lastOp'.op = "uploadResp" /\ lastOp'.chatAlive) => ~isUploading'

C11_NoQueryDuringUpload == [][C11_Step]_vars

(***************************************************************************)
(* SpecShared: localStorage belongs to the origin, so the App of another   *)
(* tab that logs out or meets a 401 removes the token under this one,      *)
(* which stays mounted (handleUnauthorized of the other instance).         *)
(***************************************************************************)
TokenRemovedElsewhere ==
  /\ localToken # Null
  /\ localToken' = Null
  /\ lastOp' = [op |-> "tokenRemoved"]
  /\ UNCHANGED <<isAuthenticated, logins, sessionStore, storageMode, gateVars,
                 chatVars, ifaceVars, fuVars, net>>

InitShared == InitApp({Str(TOKEN)}, InitialStores)

\* one signed-in session, up to the moment it is sent back to the gate
NextShared ==
  \/ TokenRemovedElsewhere
  \/ \E v \in Inputs : SetInput(v)
  \/ handleSubmit
  \/ \E req \in BagToSet(net), resp \in QueryResponses : QueryResponse(req, resp)
  \/ handleResetDocs
  \/ \E files \in FileLists \ {Null} : handleDrop(files)
  \/ \E files \in FileLists : handleFileChange(files)
  \/ \E req \in BagToSet(net), resp \in UploadResponses : UploadResponse(req, resp)

SpecShared == InitShared /\ [][NextShared]_vars

\* C12: a /query or /upload request carries the Authorization header
\* "Bearer <token>" if a token is in localStorage when the request is built,
\* and no Authorization header at all if none is.
IsNewRequest(r) ==
  r.kind \in {"query", "upload"} /\ CopiesIn(r, net') > CopiesIn(r, net)

C12_Step ==
  \A r \in BagToSet(net') :
    IsNewRequest(r) =>
      IF localToken = Null
      THEN r.auth = Null
      ELSE r.auth = Str(<<"Bearer", SP>> \o localToken.s)

C12_BearerIffToken == [][C12_Step]_vars

\* C13: the welcome/upload view is shown exactly when the list is the single
\* welcome message and documentsLoaded is false, and the transcript
\* otherwise; a successful upload leaves the single upload-success message
\* with the transcript shown; Reset Doc leaves the single welcome message,
\* documentsLoaded false, no error banner and the welcome view shown.
IsSentinelOnly == messages = <<[role |-> "assistant", content |-> WELCOME_TEXT]>>

C13_View == ChatMounted => (FileUploadMounted <=> (IsSentinelOnly /\ ~documentsLoaded))

C13_Step ==
  /\ (lastOp'.op = "uploadResp" /\ lastOp'.chatAlive /\ lastOp'.resp.ok)
       => /\ messages' = <<[role |-> "assistant", content |-> UPLOAD_SUCCESS_TEXT]>>
          /\ ~FileUploadMounted'
  /\ (lastOp'.op = "resetDocs")
       => /\ IsSentinelOnly'
          /\ ~documentsLoaded'
          /\ error' = Null
          /\ FileUploadMounted'

C13_WelcomeViewIffSentinel == []C13_View /\ [][C13_Step]_vars

C13_Witness ==
  /\ lastOp.op = "resetDocs"
  /\ FileUploadMounted
  /\ NumLive("query") = 1
  /\ loading

\* C14: whatever logins, failed logins, logouts and 401 answers to /query
\* have happened, the chat view is shown exactly when a token is in
\* localStorage (no one else writing the key, /auth returning a non-empty
\* token).
C14_ChatViewIffToken == ChatMounted <=> (localToken # Null /\ localToken.s # <<>>)

C14_Witness ==
  /\ lastOp.op = "queryResp"
  /\ lastOp.alive
  /\ Is401(lastOp.resp)
  /\ logins = 1
  /\ GateMounted
  /\ localToken = Null

\* C15: an accepted submit sets loading, the step that handles the answer
\* to its /query, whatever the outcome, leaves loading false, and so
\* loading is never true without a /query of the session still in flight.
C15_Pending == loading => (ChatMounted /\ NumLive("query") >= 1)

C15_Step ==
  /\ IsAcceptedSubmitStep => loading'
  /\ (lastOp'.op = "queryResp" /\ lastOp'.alive) => ~loading'

C15_LoadingCleared == []C15_Pending /\ [][C15_Step]_vars

C15_Witness ==
  /\ lastOp.op = "queryResp"
  /\ lastOp.alive
  /\ ~lastOp.resp.ok
  /\ lastOp.resp.status = 0
  /\ ChatMounted
  /\ ~loading

\* C16: the assistant message that the answer to a /query appends, reply or
\* "Error: " text, stands directly after the user message of the submit
\* that sent the request.
C16_ReplyFollowsItsQuestion ==
  (lastOp.op = "queryResp" /\ lastOp.alive /\ ~Is401(lastOp.resp))
    => /\ Len(messages) >= 2
       /\ LastOf(messages).role = "assistant"
       /\ messages[Len(messages) - 1] = [role |-> "user", content |-> lastOp.query]

====
